---- MODULE Spec2Model ----
(***************************************************************************)
(* Model of the cloud-sql-proxy sidecar injector (main.go): the batch      *)
(* filter fn, addSidecar and the two builders proxyImage / proxyCommand,   *)
(* over yaml.Node trees {Kind, Tag, Value, Content}.                       *)
(*                                                                         *)
(* An optional value (a Go pointer, a possibly nil *RNode, a possibly nil  *)
(* slice return) is a sequence: <<>> is nil, <<v>> points to v.            *)
(***************************************************************************)
EXTENDS Integers, Sequences, FiniteSets, TLC

\* Longest batch of documents handed to fn.
MaxDocs == 2
\* How many times the filter is run over its own output.
MaxRuns == 2

----------------------------------------------------------------------------
(* yaml.Node trees *)

\* A scalar node; Tag is the resolved short tag (!!str, !!bool, !!int).
Scalar(tag, v) == [Kind |-> "ScalarNode", Tag |-> tag, Value |-> v, Content |-> <<>>]

\* yaml.NewStringRNode(value)
NewStringRNode(v) == Scalar("!!str", v)

\* yaml.NewListRNode(values...): a sequence of string scalars
NewListRNode(values) ==
    [Kind |-> "SequenceNode", Tag |-> "!!seq", Value |-> "",
     Content |-> [i \in 1..Len(values) |-> NewStringRNode(values[i])]]

\* A sequence node over given element nodes
SeqOf(nodes) == [Kind |-> "SequenceNode", Tag |-> "!!seq", Value |-> "", Content |-> nodes]

\* yaml.NewMapRNode(nil): an empty mapping; Content alternates key, value
NewMapRNode == [Kind |-> "MappingNode", Tag |-> "!!map", Value |-> "", Content |-> <<>>]

\* yaml.MustParse("true"): the boolean scalar true
MustParseTrue == Scalar("!!bool", "true")

\* Index of the value of field name in a mapping's Content; 0 if absent
FieldIndex(node, name) ==
    LET ks == {i \in 1..Len(node.Content) : i % 2 = 1 /\ node.Content[i].Value = name}
    IN  IF ks = {} THEN 0 ELSE (CHOOSE i \in ks : \A j \in ks : i <= j) + 1

\* rn.Field(name): the field's value node, <<>> when the field is absent
Field(node, name) ==
    IF node.Kind /= "MappingNode" \/ FieldIndex(node, name) = 0
    THEN <<>>
    ELSE <<node.Content[FieldIndex(node, name)]>>

\* yaml.SetField(name, value) on a mapping: overwrite, or append key and value
SetField(node, name, value) ==
    IF FieldIndex(node, name) = 0
    THEN [node EXCEPT !.Content = @ \o <<NewStringRNode(name), value>>]
    ELSE [node EXCEPT !.Content[FieldIndex(node, name)] = value]

\* RNode.IsNilOrEmpty on an optional node: nil, null, empty map, empty seq
IsNilOrEmpty(opt) ==
    \/ opt = <<>>
    \/ opt[1].Tag = "!!null"
    \/ (opt[1].Kind \in {"MappingNode", "SequenceNode"} /\ opt[1].Content = <<>>)

\* The map a mapping node decodes to (VisitFields): key string -> value string
MapOf(node) ==
    [k \in {node.Content[i].Value : i \in {j \in 1..Len(node.Content) : j % 2 = 1}}
        |-> node.Content[FieldIndex(node, k)].Value]

\* The node a reference (a field path from the document root) points to
RECURSIVE NodeAt(_, _)
NodeAt(node, path) ==
    IF path = <<>> THEN node
    ELSE NodeAt(node.Content[FieldIndex(node, Head(path))], Tail(path))

\* rn.SetYNode(new) through a reference: *rn.value = *new, in place
RECURSIVE SetYNode(_, _, _)
SetYNode(node, path, new) ==
    IF path = <<>> THEN new
    ELSE [node EXCEPT !.Content[FieldIndex(node, Head(path))] =
              SetYNode(@, Tail(path), new)]

\* Tee(LookupCreate(MappingNode, p1), ..., SetField(name, value)):
\* create each missing intermediate mapping, descend, set the field
RECURSIVE LookupCreateSet(_, _, _, _)
LookupCreateSet(node, path, name, value) ==
    IF path = <<>> THEN SetField(node, name, value)
    ELSE LET base == IF FieldIndex(node, Head(path)) = 0
                     THEN SetField(node, Head(path), NewMapRNode)
                     ELSE node
         IN  [base EXCEPT !.Content[FieldIndex(base, Head(path))] =
                 LookupCreateSet(@, Tail(path), name, value)]

----------------------------------------------------------------------------
(* kyaml operations used by addSidecar *)

annotationFlag == "kustomize.treyd.io/cloud-sql-proxy"

ErrMissingMetadata == "missing Resource metadata"
ErrWrongNodeKind == "wrong Node Kind"

\* yaml.ConventionalContainerPaths, in table order
ConventionalContainerPaths ==
    << <<"spec", "template", "spec", "containers">>,
       <<"spec", "jobTemplate", "spec", "template", "spec", "containers">>,
       <<"spec", "containers">>,
       <<"template", "spec", "containers">> >>

\* (variant) a document without a metadata field is an error whatever else it has
GetMetaStrict(r) ==
    LET mf == Field(r, "metadata")
    IN  IF IsNilOrEmpty(mf)
        THEN [Annotations |-> <<>>, err |-> "missing Resource metadata"]
        ELSE LET ann == Field(mf[1], "annotations")
             IN  [Annotations |-> IF IsNilOrEmpty(ann) THEN <<>> ELSE <<MapOf(ann[1])>>,
                  err |-> ""]

\* r.GetMeta(): the annotations map (<<>> is the nil map) and the error, which
\* is ErrMissingMetadata when apiVersion, kind and every metadata field read
\* are missing or empty
GetMeta(r) ==
    LET top == ~IsNilOrEmpty(Field(r, "apiVersion")) \/ ~IsNilOrEmpty(Field(r, "kind"))
        mf  == Field(r, "metadata")
    IN  IF IsNilOrEmpty(mf)
        THEN [Annotations |-> <<>>, err |-> IF top THEN "" ELSE ErrMissingMetadata]
        ELSE LET ann  == Field(mf[1], "annotations")
                 some == \/ top
                         \/ ~IsNilOrEmpty(Field(mf[1], "name"))
                         \/ ~IsNilOrEmpty(Field(mf[1], "namespace"))
                         \/ ~IsNilOrEmpty(Field(mf[1], "labels"))
                         \/ ~IsNilOrEmpty(ann)
             IN  [Annotations |-> IF IsNilOrEmpty(ann) THEN <<>> ELSE <<MapOf(ann[1])>>,
                  err |-> IF some THEN "" ELSE ErrMissingMetadata]

\* (variant) every document with annotations counts as flagged
FoundAnyAnnotation(meta) == meta.Annotations /= <<>>

\* _, found := meta.Annotations[annotationFlag]
Found(meta) == meta.Annotations /= <<>> /\ annotationFlag \in DOMAIN meta.Annotations[1]

\* PathGetter{Path: path}: follow the fields from node. ref is the reference
\* reached (<<>> is nil: a field on the way is missing or null); err is set
\* when a field is looked up in a node that is not a mapping.
RECURSIVE PathGetter(_, _, _)
PathGetter(node, path, walked) ==
    IF path = <<>> THEN [ref |-> <<walked>>, err |-> ""]
    ELSE IF node.Kind /= "MappingNode" THEN [ref |-> <<>>, err |-> ErrWrongNodeKind]
    ELSE LET f == Field(node, Head(path))
         IN  IF f = <<>> \/ f[1].Tag = "!!null"
             THEN [ref |-> <<>>, err |-> ""]
             ELSE PathGetter(f[1], Tail(path), Append(walked, Head(path)))

RECURSIVE LookupLastMatch(_, _)
\* (variant) the last path of the table that exists wins
LookupLastMatch(paths, object) ==
    IF paths = <<>> THEN [ref |-> <<>>, err |-> ""]
    ELSE LET result == PathGetter(object, paths[Len(paths)], <<>>)
         IN  IF result.err /= "" THEN result
             ELSE IF result.ref /= <<>> THEN result
             ELSE LookupLastMatch(SubSeq(paths, 1, Len(paths) - 1), object)

\* yaml.LookupFirstMatch(paths): the first path that exists; nil, nil if none;
\* the first lookup error stops the search
RECURSIVE LookupFirstMatch(_, _)
LookupFirstMatch(paths, object) ==
    IF paths = <<>> THEN [ref |-> <<>>, err |-> ""]
    ELSE LET result == PathGetter(object, Head(paths), <<>>)
         IN  IF result.err /= "" THEN result
             ELSE IF result.ref /= <<>> THEN result
             ELSE LookupFirstMatch(Tail(paths), object)

----------------------------------------------------------------------------
(* main.go *)

\* A field of api.Spec is nil: dereferencing it panics
NilSpecField(api) ==
    \/ api.Spec.ProxyImage = <<>>
    \/ api.Spec.ProxyVersion = <<>>
    \/ api.Spec.ProxyInstances = <<>>

\* (variant) image and version swapped
proxyImageSwapped(api) == api.Spec.ProxyVersion[1] \o ":" \o api.Spec.ProxyImage[1]

proxyImage(api) == api.Spec.ProxyImage[1] \o ":" \o api.Spec.ProxyVersion[1]

proxyCommand(api, kind) ==
    << "/cloud_sql_proxy",
       "-term_timeout=3600s",
       "-ip_address_types=PRIVATE",
       "-log_debug_stdout",
       "-instances=" \o api.Spec.ProxyInstances[1],
       "--enable_iam_login" >>

\* r.GetKind()
GetKind(r) == IF Field(r, "kind") = <<>> THEN "" ELSE Field(r, "kind")[1].Value

\* addSidecar lines 57-78: the container node built by the Pipe of Tees
BuildContainer(api, r) ==
    LET command == NewListRNode(proxyCommand(api, GetKind(r)))
        n1 == SetField(NewMapRNode, "name", NewStringRNode("proxysql"))
        n2 == SetField(n1, "image", NewStringRNode(proxyImage(api)))
        n3 == SetField(n2, "command", command)
        n4 == LookupCreateSet(n3, <<"securityContext">>, "runAsNonRoot", MustParseTrue)
    IN  LookupCreateSet(n4, <<"lifecycle", "postStart", "exec">>, "command",
                        NewListRNode(<<"/bin/bash", "-c", "wait-for-port 5432">>))

\* (variant) a container already at the head under the same name is not added again
PrependUnlessPresent(container, content) ==
    IF content /= <<>> /\ Field(Head(content), "name") = Field(container, "name")
    THEN content
    ELSE <<container>> \o content

\* addSidecar lines 85-89: newContainers = [container] ++ containers.Content()
NewContainers(container, content) == <<container>> \o content

----------------------------------------------------------------------------
(* Input documents and function configurations *)

\* One key: value entry of a mapping's Content
KV(k, v) == <<NewStringRNode(k), v>>

Mapping(content) == [NewMapRNode EXCEPT !.Content = content]

Container(name, image) ==
    Mapping(KV("name", NewStringRNode(name)) \o KV("image", NewStringRNode(image)))

container1 == Container("container1", "image1")
container2 == Container("container2", "image2")

PodSpec(cs) == Mapping(KV("containers", SeqOf(cs)))

PodTemplateSpec(cs) ==
    Mapping(KV("metadata", Mapping(KV("labels", Mapping(KV("app", NewStringRNode("demo"))))))
            \o KV("spec", PodSpec(cs)))

TypeMeta(kind) == KV("apiVersion", NewStringRNode("v1")) \o KV("kind", NewStringRNode(kind))

\* metadata with the given annotation keys; no annotations field at all for {}
ObjectMeta(keys) ==
    LET name == KV("name", NewStringRNode("demo"))
        flag == IF annotationFlag \in keys
                THEN KV(annotationFlag, NewStringRNode("true")) ELSE <<>>
        note == IF "note" \in keys THEN KV("note", NewStringRNode("x")) ELSE <<>>
    IN  KV("metadata",
           Mapping(IF keys = {} THEN name
                   ELSE KV("annotations", Mapping(note \o flag)) \o name))

\* The bodies: where, if anywhere, the document keeps its container lists
DeploymentBody ==
    KV("spec", Mapping(KV("replicas", Scalar("!!int", "1"))
                       \o KV("template", PodTemplateSpec(<<container1, container2>>))))
CronJobBody ==
    KV("spec", Mapping(KV("schedule", NewStringRNode("@daily"))
                       \o KV("jobTemplate",
                             Mapping(KV("spec",
                                        Mapping(KV("template", PodTemplateSpec(<<container1>>))))))))
PodBody == KV("spec", PodSpec(<<>>))
PodTemplateBody == KV("template", PodTemplateSpec(<<container2>>))
\* a list at spec.containers (third in the table) written before the one at
\* spec.template.spec.containers (first in the table)
TwoListsBody ==
    KV("spec", Mapping(KV("containers", SeqOf(<<container2>>))
                       \o KV("template", PodTemplateSpec(<<container1>>))))
ConfigMapBody == KV("data", Mapping(KV("key", NewStringRNode("value"))))
ScalarSpecBody == KV("spec", NewStringRNode("oops"))
\* spec.template is not a mapping, spec.containers is a list
ScalarTemplateBody ==
    KV("spec", Mapping(KV("template", NewStringRNode("oops"))
                       \o KV("containers", SeqOf(<<container1>>))))

Gated == {annotationFlag}

Documents ==
    {Mapping(d) : d \in
        { TypeMeta("Deployment") \o ObjectMeta(Gated) \o DeploymentBody,
          TypeMeta("CronJob") \o ObjectMeta({"note", annotationFlag}) \o CronJobBody,
          TypeMeta("Pod") \o ObjectMeta(Gated) \o PodBody,
          TypeMeta("PodTemplate") \o ObjectMeta(Gated) \o PodTemplateBody,
          TypeMeta("Odd") \o ObjectMeta(Gated) \o TwoListsBody,
          TypeMeta("ConfigMap") \o ObjectMeta(Gated) \o ConfigMapBody,
          TypeMeta("Broken") \o ObjectMeta(Gated) \o ScalarSpecBody,
          TypeMeta("Broken") \o ObjectMeta(Gated) \o ScalarTemplateBody,
          TypeMeta("Deployment") \o ObjectMeta({"note"}) \o DeploymentBody,
          TypeMeta("Deployment") \o ObjectMeta({}) \o DeploymentBody,
          TypeMeta("Deployment") \o DeploymentBody,
          DeploymentBody,
          TypeMeta("ConfigMap") \o ObjectMeta({"note"}) \o ConfigMapBody }}

Batches == UNION {[1..n -> Documents] : n \in 0..MaxDocs}

\* API.Spec after the function configuration was loaded: a field that the
\* configuration does not give stays a nil pointer
Configurations ==
    [Spec : [ProxyImage : {<<>>, <<"gcr.io/cloud-sql-connectors/cloud-sql-proxy">>},
             ProxyVersion : {<<>>, <<"2.0.0">>},
             ProxyInstances : {<<>>, <<"your-project:your-region:your-instance=tcp:5432">>}]]

----------------------------------------------------------------------------
(* State *)

VARIABLES
    api,        \* the API struct filled from the function configuration
    input,      \* the items as they were when this run of fn began
    items,      \* the items (the same nodes, changed in place)
    idx,        \* position of the range loop of fn
    pc,         \* fn | Build | Resolve | Mutate | exit0 | exit1 | panic
    container,  \* addSidecar's container, <<>> before it is built
    containers, \* addSidecar's containers: a reference, <<>> is a nil *RNode
    output,     \* the list fn returned, <<>> is nil
    err,        \* the error fn returned, "" is nil
    steps,      \* the stages addSidecar went through on the current item
    runs,       \* runs of fn so far, this one included
    original    \* the items before the first run

vars == <<api, input, items, idx, pc, container, containers, output, err, steps,
          runs, original>>

Init ==
    /\ api \in Configurations
    /\ input \in Batches
    /\ items = input
    /\ original = input
    /\ idx = 1
    /\ pc = "fn"
    /\ container = <<>>
    /\ containers = <<>>
    /\ output = <<>>
    /\ err = ""
    /\ steps = <<>>
    /\ runs = 1

----------------------------------------------------------------------------
(* fn and addSidecar *)

\* (variant) the list is resolved before the container is built
StageAfterResolveFirst(stage) ==
    CASE stage = "Gate" -> "Resolve"
      [] stage = "Resolve" -> "Build"
      [] stage = "Build" -> "Mutate"

\* The order of addSidecar's statements after the gate: the container is
\* built (57-78), then the list is looked up (80-83), then replaced (85-91)
StageAfter(stage) ==
    CASE stage = "Gate" -> "Build"
      [] stage = "Build" -> "Resolve"
      [] stage = "Resolve" -> "Mutate"

\* (variant) an error hands back the items processed so far
FnErrorReturnItems(its, e) == [items |-> <<its>>, err |-> e]

\* fn: return nil, err
FnErrorReturn(its, e) == [items |-> <<>>, err |-> e]

\* (variant) the items come back in reverse order
FnReturnReversed(its) ==
    [items |-> <<[i \in 1..Len(its) |-> its[Len(its) + 1 - i]]>>, err |-> ""]

\* fn: return items, nil
FnReturn(its) == [items |-> <<its>>, err |-> ""]

\* fn's loop reaches an item and calls addSidecar, whose GetMeta fails:
\* addSidecar returns the error and fn returns nil, err; main exits 1
GateError ==
    /\ pc = "fn" /\ idx <= Len(items)
    /\ GetMeta(items[idx]).err /= ""
    /\ steps' = <<"Gate">>
    /\ output' = FnErrorReturn(items, GetMeta(items[idx]).err).items
    /\ err' = FnErrorReturn(items, GetMeta(items[idx]).err).err
    /\ pc' = "exit1"
    /\ UNCHANGED <<api, input, items, idx, container, containers, runs, original>>

\* the annotation is not found: addSidecar returns nil, the loop goes on
GateSkip ==
    /\ pc = "fn" /\ idx <= Len(items)
    /\ GetMeta(items[idx]).err = ""
    /\ ~Found(GetMeta(items[idx]))
    /\ steps' = <<"Gate">>
    /\ idx' = idx + 1
    /\ UNCHANGED <<api, input, items, pc, container, containers, output, err, runs,
                   original>>

\* the annotation is found: addSidecar goes on
GateProceed ==
    /\ pc = "fn" /\ idx <= Len(items)
    /\ GetMeta(items[idx]).err = ""
    /\ Found(GetMeta(items[idx]))
    /\ steps' = <<"Gate">>
    /\ pc' = StageAfter("Gate")
    /\ UNCHANGED <<api, input, items, idx, container, containers, output, err, runs,
                   original>>

\* proxyCommand or proxyImage dereferences a nil field of api.Spec
BuildPanic ==
    /\ pc = "Build"
    /\ NilSpecField(api)
    /\ steps' = Append(steps, "Build")
    /\ pc' = "panic"
    /\ UNCHANGED <<api, input, items, idx, container, containers, output, err, runs,
                   original>>

Build ==
    /\ pc = "Build"
    /\ ~NilSpecField(api)
    /\ steps' = Append(steps, "Build")
    /\ container' = <<BuildContainer(api, items[idx])>>
    /\ pc' = StageAfter("Build")
    /\ UNCHANGED <<api, input, items, idx, containers, output, err, runs, original>>

\* the lookup returns an error: addSidecar returns it, fn returns nil, err
ResolveError ==
    /\ pc = "Resolve"
    /\ LookupFirstMatch(ConventionalContainerPaths, items[idx]).err /= ""
    /\ steps' = Append(steps, "Resolve")
    /\ output' = FnErrorReturn(items,
                    LookupFirstMatch(ConventionalContainerPaths, items[idx]).err).items
    /\ err' = FnErrorReturn(items,
                    LookupFirstMatch(ConventionalContainerPaths, items[idx]).err).err
    /\ pc' = "exit1"
    /\ UNCHANGED <<api, input, items, idx, container, containers, runs, original>>

\* the lookup returns a node, or nil with no error when no path exists
Resolve ==
    /\ pc = "Resolve"
    /\ LookupFirstMatch(ConventionalContainerPaths, items[idx]).err = ""
    /\ steps' = Append(steps, "Resolve")
    /\ containers' = LookupFirstMatch(ConventionalContainerPaths, items[idx]).ref
    /\ pc' = StageAfter("Resolve")
    /\ UNCHANGED <<api, input, items, idx, container, output, err, runs, original>>

\* containers is nil: Content() of nil is empty, SetYNode on nil panics
MutatePanic ==
    /\ pc = "Mutate"
    /\ containers = <<>>
    /\ steps' = Append(steps, "Mutate")
    /\ pc' = "panic"
    /\ UNCHANGED <<api, input, items, idx, container, containers, output, err, runs,
                   original>>

\* the node containers refers to becomes the new list; addSidecar returns nil
Mutate ==
    /\ pc = "Mutate"
    /\ containers /= <<>>
    /\ steps' = Append(steps, "Mutate")
    /\ items' = [items EXCEPT ![idx] =
                    SetYNode(@, containers[1],
                             SeqOf(NewContainers(container[1],
                                                 NodeAt(@, containers[1]).Content)))]
    /\ idx' = idx + 1
    /\ container' = <<>>
    /\ containers' = <<>>
    /\ pc' = "fn"
    /\ UNCHANGED <<api, input, output, err, runs, original>>

\* the loop is over: fn returns items, nil; main exits 0
FnDone ==
    /\ pc = "fn" /\ idx > Len(items)
    /\ output' = FnReturn(items).items
    /\ err' = FnReturn(items).err
    /\ pc' = "exit0"
    /\ UNCHANGED <<api, input, items, idx, container, containers, steps, runs,
                   original>>

\* the function is run again, with the same configuration, on what it returned
Reapply ==
    /\ pc = "exit0" /\ runs < MaxRuns
    /\ input' = output[1]
    /\ items' = output[1]
    /\ idx' = 1
    /\ output' = <<>>
    /\ steps' = <<>>
    /\ runs' = runs + 1
    /\ pc' = "fn"
    /\ UNCHANGED <<api, container, containers, err, original>>

Next ==
    \/ GateError
    \/ GateSkip
    \/ GateProceed
    \/ BuildPanic
    \/ Build
    \/ ResolveError
    \/ Resolve
    \/ MutatePanic
    \/ Mutate
    \/ FnDone
    \/ Reapply

Spec == Init /\ [][Next]_vars

----------------------------------------------------------------------------
(* Properties *)

\* The trigger key is a key of the document's metadata.annotations
CarriesTrigger(doc) ==
    /\ Field(doc, "metadata") /= <<>>
    /\ Field(Field(doc, "metadata")[1], "annotations") /= <<>>
    /\ FieldIndex(Field(Field(doc, "metadata")[1], "annotations")[1],
                  "kustomize.treyd.io/cloud-sql-proxy") /= 0

\* The candidate paths, by table position, at which the document has a node
ExistingPaths(doc) ==
    {k \in 1..Len(ConventionalContainerPaths) :
        PathGetter(doc, ConventionalContainerPaths[k], <<>>).ref /= <<>>}

\* The first of them in table order
FirstPath(doc) ==
    ConventionalContainerPaths[CHOOSE k \in ExistingPaths(doc) :
                                   \A m \in ExistingPaths(doc) : k <= m]

\* The sidecar container, written out for the configuration of the run
ExpectedSidecar ==
    Mapping(
        KV("name", Scalar("!!str", "proxysql"))
        \o KV("image", Scalar("!!str", api.Spec.ProxyImage[1] \o ":" \o api.Spec.ProxyVersion[1]))
        \o KV("command",
              SeqOf(<< Scalar("!!str", "/cloud_sql_proxy"),
                       Scalar("!!str", "-term_timeout=3600s"),
                       Scalar("!!str", "-ip_address_types=PRIVATE"),
                       Scalar("!!str", "-log_debug_stdout"),
                       Scalar("!!str", "-instances=" \o api.Spec.ProxyInstances[1]),
                       Scalar("!!str", "--enable_iam_login") >>))
        \o KV("securityContext", Mapping(KV("runAsNonRoot", Scalar("!!bool", "true"))))
        \o KV("lifecycle",
              Mapping(KV("postStart",
                  Mapping(KV("exec",
                      Mapping(KV("command",
                          SeqOf(<< Scalar("!!str", "/bin/bash"),
                                   Scalar("!!str", "-c"),
                                   Scalar("!!str", "wait-for-port 5432") >>)))))))))

\* metadata, or metadata.annotations, is absent
NoAnnotations(doc) ==
    \/ Field(doc, "metadata") = <<>>
    \/ Field(Field(doc, "metadata")[1], "annotations") = <<>>

\* apiVersion or kind is present
HasTypeMeta(doc) == Field(doc, "apiVersion") /= <<>> \/ Field(doc, "kind") /= <<>>

\* The items of this run that addSidecar has returned nil for
Processed == 1..(idx - 1)

C2_UngatedUnchanged ==
    pc = "exit0" =>
        \A j \in 1..Len(input) :
            ~CarriesTrigger(input[j]) =>
                (j <= Len(output[1]) /\ output[1][j] = input[j])

\* C2 witness: a successful run returned an ungated document that has
\* containers beside a gated one that was changed
C2_Witness ==
    /\ pc = "exit0"
    /\ \E j, k \in 1..Len(input) :
        /\ ~CarriesTrigger(input[j])
        /\ ExistingPaths(input[j]) /= {}
        /\ Field(input[j], "metadata") /= <<>>
        /\ Field(Field(input[j], "metadata")[1], "annotations") /= <<>>
        /\ CarriesTrigger(input[k])
        /\ output[1][k] /= input[k]

\* C3 (as claimed): with a configuration field missing, the run over a batch
\* of one or more documents (each with an apiVersion and a kind) fails with a
\* ConfigurationError before any document is processed: no item is ever
\* handed to addSidecar, and the run neither succeeds nor panics.
C3_ConfigurationErrorFirst ==
    (/\ NilSpecField(api)
     /\ Len(input) > 0
     /\ \A j \in 1..Len(input) : HasTypeMeta(input[j])) =>
        /\ idx = 1
        /\ steps = <<>>
        /\ pc \in {"fn", "exit1"}
        /\ (pc = "exit1" => err = "ConfigurationError")

\* C4 (as claimed): a gated document with no node at any candidate path makes
\* addSidecar return an error to fn (the configuration being complete): the
\* run does not panic on it and does not go past it.
C4_PathResolutionError ==
    \A j \in 1..Len(input) :
        (/\ ~NilSpecField(api)
         /\ CarriesTrigger(input[j])
         /\ \A k \in 1..Len(ConventionalContainerPaths) :
               PathGetter(input[j], ConventionalContainerPaths[k], <<>>)
                   = [ref |-> <<>>, err |-> ""]) =>
            /\ ~(idx = j /\ pc = "panic")
            /\ idx <= j
            /\ (idx = j /\ pc = "exit1" => err /= "")

\* C5: a run that fails on an item returns no list, and has touched no item
\* after the one it failed on.
C5_NoPartialOutput ==
    pc \in {"exit1", "panic"} =>
        /\ output = <<>>
        /\ idx <= Len(items)
        /\ \A j \in (idx + 1)..Len(items) : items[j] = input[j]

\* C5 witness: fn returned an error on the second item after changing the first
C5_Witness ==
    /\ pc = "exit1"
    /\ idx = 2
    /\ items[1] /= input[1]
    /\ output = <<>>

\* C6: in the second run over the same items, with the same configuration, a
\* gated document that had n containers ends with n + 2: two sidecars at
\* positions 0 and 1, then the n original containers in order.
C6_NotIdempotent ==
    runs = 2 =>
        \A j \in Processed :
            (CarriesTrigger(original[j]) /\ ExistingPaths(original[j]) /= {}) =>
                LET first == NodeAt(original[j], FirstPath(original[j])).Content
                    now   == NodeAt(items[j], FirstPath(original[j])).Content
                IN  /\ Len(now) = Len(first) + 2
                    /\ now[1] = ExpectedSidecar
                    /\ now[2] = ExpectedSidecar
                    /\ SubSeq(now, 3, Len(now)) = first

\* C6 witness: the second run has left four containers where there were two
C6_Witness ==
    /\ runs = 2
    /\ \E j \in Processed :
        /\ CarriesTrigger(original[j])
        /\ ExistingPaths(original[j]) /= {}
        /\ Len(NodeAt(original[j], FirstPath(original[j])).Content) = 2
        /\ Len(NodeAt(items[j], FirstPath(original[j])).Content) = 4

\* C7 (as claimed): a document whose metadata or annotations are absent never
\* makes the run fail, and is unchanged once addSidecar has returned for it.
C7_AbsentMetadataSkipped ==
    \A j \in 1..Len(input) :
        NoAnnotations(input[j]) =>
            /\ ~(idx = j /\ pc \in {"exit1", "panic", "Build", "Resolve", "Mutate"})
            /\ items[j] = input[j]

\* C7 (amended): that holds of a document that has an apiVersion or a kind; a
\* document with no apiVersion, no kind and no metadata makes GetMeta fail:
\* addSidecar returns the error and the run ends on that document.
C7_AbsentMetadataSkippedIfTyped ==
    \A j \in 1..Len(input) :
        /\ (NoAnnotations(input[j]) /\ HasTypeMeta(input[j])) =>
              /\ ~(idx = j /\ pc \in {"exit1", "panic", "Build", "Resolve", "Mutate"})
              /\ items[j] = input[j]
        /\ (Field(input[j], "metadata") = <<>> /\ ~HasTypeMeta(input[j])) =>
              /\ idx <= j
              /\ (idx = j => pc \in {"fn", "exit1"})
              /\ (idx = j /\ pc = "exit1" =>
                     err = "missing Resource metadata" /\ output = <<>>)
              /\ items[j] = input[j]

\* C7 witness: a document with a kind and no metadata was passed over unchanged
\* and the item after it was processed too
C7_Witness ==
    /\ Len(input) = 2
    /\ Field(input[1], "metadata") = <<>>
    /\ HasTypeMeta(input[1])
    /\ idx = 3
    /\ items[1] = input[1]

\* The document with the first container removed from its first list
WithoutFirstContainer(doc) ==
    SetYNode(doc, FirstPath(doc),
             [NodeAt(doc, FirstPath(doc)) EXCEPT !.Content = Tail(@)])

\* C8: a successful run returns as many documents as it was given, the i-th
\* being the i-th input, as it was or with one container more.
C8_OrderPreserved ==
    pc = "exit0" =>
        /\ Len(output[1]) = Len(input)
        /\ \A i \in 1..Len(input) :
              \/ output[1][i] = input[i]
              \/ /\ ExistingPaths(output[1][i]) /= {}
                 /\ NodeAt(output[1][i], FirstPath(output[1][i])).Content /= <<>>
                 /\ WithoutFirstContainer(output[1][i]) = input[i]

\* C8 witness: two different documents came back in place, the first changed
C8_Witness ==
    /\ pc = "exit0"
    /\ Len(input) = 2
    /\ input[1] /= input[2]
    /\ output[1][1] /= input[1]
    /\ output[1][2] = input[2]

\* C9 (as claimed): the stages run in the order Gate, Resolve, Build, Mutate,
\* and a lookup that fails does so before the container is built (the
\* configuration being complete).
C9_ResolveBeforeBuild ==
    ~NilSpecField(api) =>
        /\ \E n \in 0..4 :
               steps = SubSeq(<<"Gate", "Resolve", "Build", "Mutate">>, 1, n)
        /\ (pc = "exit1" /\ steps[Len(steps)] = "Resolve") => container = <<>>

\* C9 (amended): the stages run in the order Gate, Build, Resolve, Mutate; a
\* document that fails the gate has only the Gate stage; a lookup that fails
\* does so after the container was built from the configuration.
C9_BuildBeforeResolve ==
    /\ \E n \in 0..4 : steps = SubSeq(<<"Gate", "Build", "Resolve", "Mutate">>, 1, n)
    /\ \A j \in Processed : (j = idx - 1 /\ pc = "fn" /\ ~CarriesTrigger(input[j]))
                                => steps = <<"Gate">>
    /\ (pc = "exit1" /\ err = "missing Resource metadata") => steps = <<"Gate">>
    /\ (pc = "exit1" /\ err = "wrong Node Kind") =>
           /\ steps = <<"Gate", "Build", "Resolve">>
           /\ container = <<ExpectedSidecar>>

\* C9 witness: the lookup failed on a gated document, the container being built
C9_Witness ==
    /\ pc = "exit1"
    /\ err = "wrong Node Kind"
    /\ CarriesTrigger(items[idx])
    /\ container /= <<>>

\* C10: a gated document that addSidecar changed differs from the input only
\* in the list at the first candidate path that exists: putting the old list
\* back gives the input document, and the old containers follow the new one.
C10_OnlyFirstListChanged ==
    \A j \in Processed :
        CarriesTrigger(input[j]) =>
            /\ ExistingPaths(input[j]) /= {}
            /\ LET p == FirstPath(input[j])
               IN  /\ NodeAt(items[j], p) /= NodeAt(input[j], p)
                   /\ Tail(NodeAt(items[j], p).Content) = NodeAt(input[j], p).Content
                   /\ SetYNode(items[j], p, NodeAt(input[j], p)) = input[j]

\* C10 witness: of two lists, the one at spec.template.spec.containers was
\* changed and the one at spec.containers was not
C10_Witness ==
    \E j \in Processed :
        /\ CarriesTrigger(input[j])
        /\ ExistingPaths(input[j]) = {1, 3}
        /\ NodeAt(items[j], ConventionalContainerPaths[1])
               /= NodeAt(input[j], ConventionalContainerPaths[1])
        /\ NodeAt(items[j], ConventionalContainerPaths[3])
               = NodeAt(input[j], ConventionalContainerPaths[3])

====
